---- MODULE Spec2Model ----
(***************************************************************************)
(* Model of the portfolio generation endpoint of server.js:                *)
(* POST /api/generate = multer upload middleware, then the async handler   *)
(* (validation, rendering, repository creation, GitHub Pages enablement,   *)
(* local staging, commits, cleanup).  Several requests are in flight at    *)
(* once; a handler runs atomically between two awaits.                     *)
(***************************************************************************)
EXTENDS Integers, Sequences, FiniteSets, TLC

\* ---------------------------------------------------------------- bounds
MaxClock == 2

\* the longest skills and projects arrays of the rendered requests
MaxItems == 2

\* two requests are in flight together: the properties about concurrency
\* are about pairs of requests
Reqs == {1, 2}

Null == "null"

\* the value of repoName before line 420 assigns it
NoRepo == [slug |-> <<>>, ts |-> 0]

\* ------------------------------------------------------- text and inputs
\* A text is a sequence of one-character tokens; "<img>" stands for a tag
\* that sanitize-html's default options discard.
ToLower(c) == IF c = "A" THEN "a" ELSE c

IsSpace(c) == c = " "

\* sanitizeHtml(text): absent input gives the empty text, disallowed tags go
sanitizeHtml(t) == SelectSeq(t, LAMBDA c : c # "<img>")

\* sanitizedData.name.toLowerCase().replace(/\s/g, '-')
Slug(t) == [i \in 1..Len(t) |-> IF IsSpace(ToLower(t[i])) THEN "-" ELSE ToLower(t[i])]

\* /^[^\s@]+@[^\s@]+\.[^\s@]+$/
EmailChar(c) == ~IsSpace(c) /\ c # "@"

emailRegex(e) ==
    \E i \in 2..Len(e) : \E j \in (i + 2)..(Len(e) - 1) :
        /\ e[i] = "@"
        /\ e[j] = "."
        /\ \A k \in (1..Len(e)) \ {i, j} : EmailChar(e[k])

\* the keys for which templates[key] is truthy: the three own properties,
\* and the properties every object inherits ("constructor" stands for them)
TemplateNames == {"default", "dark", "vibrant"}

TemplateTruthy(k) == k \in TemplateNames \cup {"constructor"}

\* JSON values
JNull == [kind |-> "null"]

JNum(n) == [kind |-> "number", n |-> n]

JStr(t) == [kind |-> "string", s |-> t]

JArr(items) == [kind |-> "array", items |-> items]

JObj(o) == [kind |-> "object", o |-> o]

\* A JSON field of the form is a text: empty, malformed, or the text of a
\* JSON value.  JSON.parse(text) throws on the first two.
JsonText(v) == [t |-> "json", v |-> v]

EmptyText == [t |-> "empty"]

Malformed == [t |-> "malformed"]

JSONparse(f) == IF f.t = "json" THEN [ok |-> TRUE, v |-> f.v] ELSE [ok |-> FALSE]

\* a field of req.body that the request does not carry is not in the domain
Has(b, f) == f \in DOMAIN b

Without(b, f) == [g \in (DOMAIN b) \ {f} |-> b[g]]

\* !x for a text field: absent or empty
Falsy(b, f) == ~Has(b, f) \/ b[f] = <<>>

\* x || '[]' for a JSON field
OrEmptyArray(b, f) ==
    IF ~Has(b, f) \/ b[f] = EmptyText THEN JsonText(JArr(<<>>)) ELSE b[f]

\* JSON.parse(x || '[]').map(...): throws unless the text parses to an array
ParsesToArray(b, f) ==
    LET p == JSONparse(OrEmptyArray(b, f)) IN p.ok /\ p.v.kind = "array"

ParsedItems(b, f) == JSONparse(OrEmptyArray(b, f)).v.items

\* x.length of a parsed JSON value; -1 stands for undefined
LengthOf(v) ==
    IF v.kind = "array" THEN Len(v.items)
    ELSE IF v.kind = "string" THEN Len(v.s)
    ELSE -1

\* the map callback of parsedProjects reads project.title: a TypeError for a
\* null element
ProjectsMapThrows(items) == \E i \in 1..Len(items) : items[i].kind = "null"

\* ------------------------------------------------------------ responses
NoResponse == [code |-> 0]

InputError(msg) == [code |-> 400, error |-> msg]

\* the catch block, line 485: status 500 with the message of the exception
ServerError(msg) == [code |-> 500, error |-> msg]

Success(url) == [code |-> 200, url |-> url]

\* ------------------------------------------------- the handler's prefix
\* Lines 311-414, which run without an await: the outcome is a 400 reply,
\* an exception (caught at line 483) or no reply yet (the document is
\* rendered and the handler goes on).
HandlerPrefix(b) ==
    IF Falsy(b, "name") \/ Falsy(b, "profession") \/ Falsy(b, "email")
    THEN InputError("Name, profession, and email are required")
    ELSE IF ~emailRegex(b.email) THEN InputError("Invalid email format")
    ELSE IF ~Has(b, "template") \/ ~TemplateTruthy(b.template)
    THEN InputError("Invalid template selected")
    ELSE IF ~JSONparse(OrEmptyArray(b, "skills")).ok THEN ServerError("SyntaxError")
    ELSE IF ~ParsesToArray(b, "skills") THEN ServerError("TypeError")
    ELSE IF ~JSONparse(OrEmptyArray(b, "skillProficiencies")).ok
    THEN ServerError("SyntaxError")
    ELSE IF ~JSONparse(OrEmptyArray(b, "projects")).ok THEN ServerError("SyntaxError")
    ELSE IF ~ParsesToArray(b, "projects") THEN ServerError("TypeError")
    ELSE IF ProjectsMapThrows(ParsedItems(b, "projects")) THEN ServerError("TypeError")
    ELSE LET profs == JSONparse(OrEmptyArray(b, "skillProficiencies")).v IN
         IF profs.kind = "null" THEN ServerError("TypeError")
         ELSE IF Len(ParsedItems(b, "skills")) # LengthOf(profs)
         THEN InputError("Number of skills and proficiencies must match")
         ELSE IF b.template \notin TemplateNames THEN ServerError("TypeError")
         ELSE NoResponse

\* ------------------------------------------------------- request bodies
GoodBody ==
    [name |-> <<"A", " ", "b">>, profession |-> <<"e">>,
     email |-> <<"a", "@", "b", ".", "c">>, template |-> "dark",
     skills |-> JsonText(JArr(<<JStr(<<"c">>)>>)),
     skillProficiencies |-> JsonText(JArr(<<JNum(80)>>)),
     projects |-> JsonText(JArr(<<>>))]

\* the values tried for each field, besides leaving the field out
Alternatives(f) ==
    CASE f = "name" -> {<<>>, <<"a", "-", "b">>, <<"<img>">>}
      [] f = "profession" -> {<<>>}
      [] f = "email" -> {<<>>, <<"a", "@", "b">>, <<"a", " ", "@", "b", ".", "c">>}
      [] f = "template" -> {"default", "vibrant", "bogus", "constructor"}
      [] f = "skills" -> {EmptyText, Malformed, JsonText(JNull),
                          JsonText(JArr(<<JStr(<<"c">>), JStr(<<"d">>)>>))}
      [] f = "skillProficiencies" -> {EmptyText, Malformed, JsonText(JNull),
                                      JsonText(JNum(80))}
      [] f = "projects" -> {EmptyText, Malformed, JsonText(JArr(<<JNull>>)),
                            JsonText(JObj("project"))}

Fields == DOMAIN GoodBody

\* the good body changed in one field
OneChange(b) ==
    {Without(b, f) : f \in DOMAIN b \cap Fields}
    \cup UNION {{[b EXCEPT ![f] = v] : v \in Alternatives(f)} : f \in DOMAIN b \cap Fields}

\* the good body, every body with one change, and bodies in which a
\* required field is missing and a later validation would fail too
Bodies ==
    {GoodBody} \cup OneChange(GoodBody)
    \cup {[Without(GoodBody, f) EXCEPT !.skills = Malformed] :
              f \in {"name", "profession", "email"}}
    \cup {[Without(GoodBody, "name") EXCEPT !.template = "bogus"],
          [GoodBody EXCEPT !.email = <<>>, !.projects = Malformed],
          [GoodBody EXCEPT !.skills = JsonText(JArr(<<JStr(<<"c">>), JStr(<<"d">>)>>)),
                           !.projects = Malformed]}

\* request 1 carries any body of Bodies, its peer the good one
BodiesOf(r) == IF r = 1 THEN Bodies ELSE {GoodBody}

\* ----------------------------------------------------------- file parts
\* limits: { fileSize: 5 * 1024 * 1024 }
FileSizeLimit == 5 * 1024 * 1024

Sizes == {FileSizeLimit, FileSizeLimit + 1}

\* the file parts a request may carry: declared MIME type, byte size and
\* path.extname(file.originalname)
CvParts == [mimetype : {"application/pdf", "text/plain"}, size : Sizes,
            ext : {".pdf", ".doc"}]

ImageParts == [mimetype : {"image/jpeg", "image/png", "image/gif"}, size : Sizes,
               ext : {".jpg"}]

\* upload.fields([{ name: 'cv' }, { name: 'image' }])
UploadFields == {"cv", "image"}

\* request 1 sends parts of any kind; its peer sends at most a cv, with the
\* usual extension
PartsOf(r, field) ==
    IF r = 1 THEN (IF field = "cv" THEN CvParts ELSE ImageParts)
    ELSE IF field = "cv" THEN {f \in CvParts : f.ext = ".pdf"}
    ELSE {}

\* a fileFilter that lets a cv of any type through
fileFilterAnyCv(field, file) ==
    IF field = "image" /\ file.mimetype \notin {"image/jpeg", "image/png"}
    THEN "Profile image must be a JPEG or PNG file"
    ELSE "ok"

\* fileFilter: the error passed to cb, or "ok" for cb(null, true)
fileFilter(field, file) ==
    IF field = "cv" /\ file.mimetype # "application/pdf" THEN "CV must be a PDF file"
    ELSE IF field = "image" /\ file.mimetype \notin {"image/jpeg", "image/png"}
    THEN "Profile image must be a JPEG or PNG file"
    ELSE "ok"

\* filename: `${Date.now()}-${file.fieldname}${ext}` under ./uploads
filename(now, field, file) == [ts |-> now, field |-> field, ext |-> file.ext]

\* `eportfolio-${sanitizedData.name.toLowerCase().replace(/\s/g, '-')}-${Date.now()}`
RepoNameOf(name, now) == [slug |-> Slug(sanitizeHtml(name)), ts |-> now]

\* multer accepts the part: fileFilter calls cb(null, true) and the part is
\* within limits.fileSize
Accepted(field, file) == fileFilter(field, file) = "ok" /\ file.size <= FileSizeLimit

\* the parts of one request: at most one per field; multer reads the cv
\* part first and reads nothing after a part it refuses, so a request with a
\* refused cv is sent without an image
PartSets(r) ==
    UNION {{ps \in [S -> CvParts \cup ImageParts] :
                /\ \A f \in S : ps[f] \in PartsOf(r, f)
                /\ ("cv" \in S /\ ~Accepted("cv", ps["cv"])) => "image" \notin S} :
           S \in SUBSET UploadFields}

\* the bodies sent together with a part that multer refuses
CoreBodies ==
    {GoodBody, Without(GoodBody, "name"),
     [GoodBody EXCEPT !.email = <<"a", "@", "b">>],
     [GoodBody EXCEPT !.template = "bogus"],
     [GoodBody EXCEPT !.skills = JsonText(JArr(<<JStr(<<"c">>), JStr(<<"d">>)>>))]}

\* the requests a client sends: text fields and file parts
Requests(r) ==
    {req \in [body : BodiesOf(r), parts : PartSets(r)] :
        \/ req.body \in CoreBodies
        \/ \A f \in DOMAIN req.parts : Accepted(f, req.parts[f])}

\* no document is being rendered
NoPage == [stage |-> "none"]

\* -------------------------------------------------------------- rendering
\* The document is a sequence of tokens.  A placeholder is one token; the
\* texts of the requests carry no "$", so a replacement text is inserted as
\* it is.
Placeholders ==
    {"{name}", "{profession}", "{tagline}", "{summary}", "{about}", "{email}",
     "{linkedin}", "{phone}", "{keywords}", "{skills}", "{projects}"}

\* templates[k]: baseTemplate with the colours of k; the placeholders are in
\* the order of lines 62-188
Skeleton(k) ==
    <<"<meta description>", "{name}", "{profession}",
      "<meta keywords>", "{keywords}", "{profession}",
      "<title>", "{name}", "{profession}", "<style>", k,
      "<nav>", "{name}", "{profession}", "<h1>", "{name}", "{profession}",
      "<p>", "{tagline}", "./headshot.jpg", "{summary}", "{about}",
      "{skills}", "{projects}", "./resume.pdf", "mailto:", "{email}",
      "{linkedin}", "./resume.pdf", "mailto:", "{email}", "{email}", "{phone}",
      "<footer>", "{name}", "{profession}">>

\* doc.replace(/tok/g, val): every occurrence of tok in doc gives way to val;
\* the inserted text is not scanned again
RECURSIVE Replace(_, _, _)
Replace(doc, tok, val) ==
    IF doc = <<>> THEN <<>>
    ELSE (IF Head(doc) = tok THEN val ELSE <<Head(doc)>>) \o Replace(Tail(doc), tok, val)

\* x || d for a text
OrDefault(x, d) == IF x = <<>> THEN d ELSE x

\* sanitizeHtml(req.body.f): the empty text for a field that is not sent
Field(b, f) == IF Has(b, f) THEN sanitizeHtml(b[f]) ELSE <<>>

\* sanitizeHtml(v) for an element of a parsed JSON array
SanitizeJson(v) ==
    IF v.kind = "string" THEN sanitizeHtml(v.s)
    ELSE IF v.kind = "number" THEN <<ToString(v.n)>>
    ELSE <<>>

\* JSON.parse(skills || '[]').map(skill => sanitizeHtml(skill)) (line 345)
parsedSkills(b) ==
    LET items == ParsedItems(b, "skills") IN
    [i \in 1..Len(items) |-> SanitizeJson(items[i])]

\* JSON.parse(skillProficiencies || '[]') (line 346): an array
parsedProficiencies(b) == ParsedItems(b, "skillProficiencies")

\* project.k of a parsed project, the empty text standing for undefined
Prop(o, k) == IF k \in DOMAIN o THEN o[k] ELSE <<>>

\* the map callback of lines 347-353
SanitizeProject(o) ==
    [title |-> sanitizeHtml(Prop(o, "title")),
     description |-> sanitizeHtml(Prop(o, "description")),
     link |-> IF Prop(o, "link") # <<>> THEN sanitizeHtml(Prop(o, "link")) ELSE <<>>,
     category |-> sanitizeHtml(Prop(o, "category"))]

parsedProjects(b) ==
    LET items == ParsedItems(b, "projects") IN
    [i \in 1..Len(items) |-> SanitizeProject(items[i].o)]

\* `${parsedProficiencies[index] || 0}`: a falsy value (null, 0, '') gives 0
ProficiencyText(v) ==
    IF v.kind = "number" THEN <<ToString(v.n)>>
    ELSE IF v.kind = "string" /\ v.s # <<>> THEN v.s
    ELSE <<"0">>

\* the block of one skill (lines 364-369); index counts from 0
SkillBlock(skill, index, proficiency) ==
    [delay |-> 100 + index * 100,
     label |-> OrDefault(skill, <<"Skill ", ToString(index + 1)>>),
     width |-> ProficiencyText(proficiency)]

SkillMarkup(blk) ==
    <<"<div skill-item>", ToString(blk.delay)>> \o blk.label
        \o <<"<div progress width:">> \o blk.width \o <<"%>", "</div>">>

\* lines 361-371, before the join
skillBlocks(skills, proficiencies) ==
    [i \in 1..Len(skills) |-> SkillBlock(skills[i], i - 1, proficiencies[i])]

\* a project block that always carries the link element
ProjectBlockAlwaysLinked(p, index) ==
    [delay |-> 100 + index * 100,
     title |-> OrDefault(p.title, <<"Project ", ToString(index + 1)>>),
     description |-> OrDefault(p.description, <<"No description provided">>),
     anchor |-> <<p.link>>,
     badge |-> OrDefault(p.category, <<"General">>)]

\* the block of one project (lines 378-385); anchor holds the href of the
\* link element, if the block has one
ProjectBlock(p, index) ==
    [delay |-> 100 + index * 100,
     title |-> OrDefault(p.title, <<"Project ", ToString(index + 1)>>),
     description |-> OrDefault(p.description, <<"No description provided">>),
     anchor |-> IF p.link # <<>> THEN <<p.link>> ELSE <<>>,
     badge |-> OrDefault(p.category, <<"General">>)]

ProjectMarkup(blk) ==
    <<"<article>", ToString(blk.delay), "<h3>">> \o blk.title \o <<"<p>">>
        \o blk.description
        \o (IF blk.anchor # <<>> THEN <<"<a href=">> \o blk.anchor[1] \o <<">View Project</a>">>
            ELSE <<>>)
        \o <<"<span>">> \o blk.badge \o <<"</article>">>

\* .filter(project => project.title && project.description) (line 375)
FilterProjects(projects) ==
    SelectSeq(projects, LAMBDA p : p.title # <<>> /\ p.description # <<>>)

\* lines 374-387, before the join
projectBlocks(projects) ==
    LET kept == FilterProjects(projects) IN
    [i \in 1..Len(kept) |-> ProjectBlock(kept[i], i - 1)]

\* texts.join(sep)
RECURSIVE Join(_, _)
Join(texts, sep) ==
    IF texts = <<>> THEN <<>>
    ELSE IF Len(texts) = 1 THEN texts[1]
    ELSE texts[1] \o sep \o Join(Tail(texts), sep)

\* .map(...).join('') of the skill blocks (lines 362-371)
skillsHtml(blocks) == Join([i \in 1..Len(blocks) |-> SkillMarkup(blocks[i])], <<>>)

\* .map(...).join('') of the project blocks (lines 376-387)
projectsHtml(blocks) == Join([i \in 1..Len(blocks) |-> ProjectMarkup(blocks[i])], <<>>)

\* lines 390-400
sanitizedData(b, skills) ==
    [name |-> Field(b, "name"), profession |-> Field(b, "profession"),
     tagline |-> Field(b, "tagline"), summary |-> Field(b, "summary"),
     about |-> Field(b, "about"), email |-> Field(b, "email"),
     linkedin |-> IF ~Falsy(b, "linkedin") THEN Field(b, "linkedin")
                  ELSE <<"https://linkedin.com">>,
     phone |-> Field(b, "phone"),
     keywords |-> Join(skills, <<", ">>)]

\* the replace chain of lines 403-414, in its order
generatedHtml(template, d, skills, projects) ==
    LET h1 == Replace(Skeleton(template), "{name}", OrDefault(d.name, <<"Your Name">>))
        h2 == Replace(h1, "{profession}", OrDefault(d.profession, <<"Your Profession">>))
        h3 == Replace(h2, "{tagline}", OrDefault(d.tagline, <<"Your Tagline or Mission Statement">>))
        h4 == Replace(h3, "{summary}", OrDefault(d.summary, <<"Describe your professional background">>))
        h5 == Replace(h4, "{about}", OrDefault(d.about, <<"Share your personal story">>))
        h6 == Replace(h5, "{email}", OrDefault(d.email, <<"your.email@example.com">>))
        h7 == Replace(h6, "{linkedin}", OrDefault(d.linkedin, <<"https://linkedin.com">>))
        h8 == Replace(h7, "{phone}", OrDefault(d.phone, <<"Your Phone Number">>))
        h9 == Replace(h8, "{keywords}", OrDefault(d.keywords, <<"your-keywords">>))
        h10 == Replace(h9, "{skills}", skills)
    IN Replace(h10, "{projects}", projects)

\* ------------------------------------------------- the rendered requests
\* b with field f set to v, sent or not before
With(b, f, v) == [g \in (DOMAIN b) \cup {f} |-> IF g = f THEN v ELSE b[g]]

TextFields == {"name", "profession", "tagline", "summary", "about", "linkedin", "phone"}

\* the texts tried for a text field: a plain one, and each placeholder
Texts == {<<"x">>} \cup {<<t>> : t \in Placeholders}

\* all sequences over S of length 0..MaxItems
Lists(S) == UNION {[1..n -> S] : n \in 0..MaxItems}

SkillNames == {<<"c">>, <<>>, <<"{name}">>}

ProficiencyValues == {JNum(80), JNum(0), JNull, JStr(<<>>), JStr(<<"h", "i">>)}

\* a skill with its proficiency
SkillPairs == [skill : SkillNames, proficiency : ProficiencyValues]

ProjectTitles == {<<"t">>, <<"<img>">>, <<"{name}">>}

ProjectDescriptions == {<<"d">>, <<>>}

ProjectLinks == {<<"l">>, <<"<img>">>}

\* the project objects of a request, with and without a link
ProjectValues ==
    [title : ProjectTitles, description : ProjectDescriptions]
    \cup [title : ProjectTitles, description : ProjectDescriptions, link : ProjectLinks]

\* the good body with the given skills and proficiencies
WithSkills(pairs) ==
    [GoodBody EXCEPT
        !.skills = JsonText(JArr([i \in 1..Len(pairs) |-> JStr(pairs[i].skill)])),
        !.skillProficiencies =
            JsonText(JArr([i \in 1..Len(pairs) |-> pairs[i].proficiency]))]

WithProjects(objects) ==
    [GoodBody EXCEPT
        !.projects = JsonText(JArr([i \in 1..Len(objects) |-> JObj(objects[i])]))]

\* the requests whose rendering is followed: the good body changed in one
\* text field, in its template, in its skills, or in its projects
RenderBodies ==
    {With(GoodBody, f, v) : f \in TextFields, v \in Texts}
    \cup {[GoodBody EXCEPT !.email = <<t, "@", "b", ".", "c">>] : t \in Placeholders}
    \cup {[GoodBody EXCEPT !.template = k] : k \in {"default", "vibrant", "bogus"}}
    \cup {WithSkills(pairs) : pairs \in Lists(SkillPairs)}
    \cup {WithProjects(objects) : objects \in Lists(ProjectValues)}

\* ---------------------------------------------------------------- state
VARIABLES
    clock,          \* the last value Date.now() has returned
    pc,             \* where each request is
    body,           \* req.body
    files,          \* req.files: field -> path of the stored upload
    repoName,       \* the handler's repoName (NoRepo before line 420)
    filesToCommit,  \* the handler's filesToCommit
    fileIdx,        \* number of entries of filesToCommit already committed
    res,            \* the response sent for the request
    uploads,        \* ./uploads: path -> request whose bytes the file holds
    temp,           \* ./temp: directory -> (file name -> request whose bytes)
    remote,         \* the account's repositories: name -> paths committed
    calls,          \* the remote calls each request has issued, in order
    parts,          \* the file parts of the request that multer has not read yet
    page            \* the document being rendered (lines 345-414)

vars == <<clock, pc, body, files, repoName, filesToCommit, fileIdx, res,
          uploads, temp, remote, calls, parts, page>>

reqVars == <<body, files, repoName, filesToCommit, fileIdx, parts>>

fsVars == <<uploads, temp>>

Empty == <<>>

\* a function without the keys in ks
Drop(f, ks) == [k \in (DOMAIN f) \ ks |-> f[k]]

Put(f, k, v) == [x \in (DOMAIN f) \cup {k} |-> IF x = k THEN v ELSE f[x]]

\* the server has started and no request has arrived
Idle ==
    /\ clock = 1
    /\ pc = [r \in Reqs |-> "idle"]
    /\ body = [r \in Reqs |-> Empty]
    /\ files = [r \in Reqs |-> Empty]
    /\ repoName = [r \in Reqs |-> NoRepo]
    /\ filesToCommit = [r \in Reqs |-> <<>>]
    /\ fileIdx = [r \in Reqs |-> 0]
    /\ res = [r \in Reqs |-> NoResponse]
    /\ uploads = Empty
    /\ temp = Empty
    /\ remote = Empty
    /\ calls = [r \in Reqs |-> <<>>]
    /\ parts = [r \in Reqs |-> Empty]

Init == Idle /\ page = NoPage

\* the response is sent and the run ends: req, res and the handler's locals
\* are released
Reply(r, response) ==
    /\ res' = [res EXCEPT ![r] = response]
    /\ pc' = [pc EXCEPT ![r] = "done"]
    /\ body' = [body EXCEPT ![r] = Empty]
    /\ files' = [files EXCEPT ![r] = Empty]
    /\ repoName' = [repoName EXCEPT ![r] = NoRepo]
    /\ filesToCommit' = [filesToCommit EXCEPT ![r] = <<>>]
    /\ fileIdx' = [fileIdx EXCEPT ![r] = 0]
    /\ parts' = [parts EXCEPT ![r] = Empty]

\* Date.now() returns now: the time of the last reading or a later one
DateNow(now) ==
    /\ now \in clock..MaxClock
    /\ clock' = now

\* a multipart request arrives and multer starts reading it; body is the
\* text fields of the form
Arrive(r) ==
    /\ pc[r] = "idle"
    /\ \E req \in Requests(r) :
        /\ body' = [body EXCEPT ![r] = req.body]
        /\ parts' = [parts EXCEPT ![r] = req.parts]
    /\ pc' = [pc EXCEPT ![r] = "multer_cv"]
    /\ UNCHANGED <<clock, files, repoName, filesToCommit, fileIdx, res, fsVars,
                   remote, calls>>
    /\ UNCHANGED page

\* ------------------------------------------------- the upload middleware
AfterPart(field) == IF field = "cv" THEN "multer_image" ELSE "handler"

PcOfPart(field) == IF field = "cv" THEN "multer_cv" ELSE "multer_image"

\* multer passes the error to next(); no error middleware is installed, so
\* Express answers with status 500
DefaultErrorHandler(msg) == [code |-> 500, error |-> msg]

\* the paths multer has stored for the request
StoredPaths(r) == {files[r][f] : f \in DOMAIN files[r]}

\* the request has no part for the field
MulterNoPart(r, field) ==
    /\ pc[r] = PcOfPart(field)
    /\ field \notin DOMAIN parts[r]
    /\ pc' = [pc EXCEPT ![r] = AfterPart(field)]
    /\ UNCHANGED <<clock, reqVars, res, fsVars, remote, calls>>
    /\ UNCHANGED page

\* the part passes fileFilter and is within the size limit: diskStorage
\* writes it to ./uploads under the generated name, over any file there
MulterStore(r, field) ==
    /\ pc[r] = PcOfPart(field)
    /\ field \in DOMAIN parts[r]
    /\ \E file \in {parts[r][field]}, now \in 1..MaxClock :
        /\ fileFilter(field, file) = "ok"
        /\ file.size <= FileSizeLimit
        /\ DateNow(now)
        /\ LET path == filename(now, field, file) IN
            /\ uploads' = Put(uploads, path, r)
            /\ files' = [files EXCEPT ![r] = Put(@, field, path)]
    /\ parts' = [parts EXCEPT ![r] = Drop(@, {field})]
    /\ pc' = [pc EXCEPT ![r] = AfterPart(field)]
    /\ UNCHANGED <<body, repoName, filesToCommit, fileIdx, res, temp, remote, calls>>
    /\ UNCHANGED page

\* the part is refused by fileFilter, or exceeds the size limit while it is
\* being written: multer removes the files it has stored for the request
MulterReject(r, field) ==
    /\ pc[r] = PcOfPart(field)
    /\ field \in DOMAIN parts[r]
    /\ \E file \in {parts[r][field]} :
        IF fileFilter(field, file) # "ok"
        THEN /\ uploads' = Drop(uploads, StoredPaths(r))
             /\ Reply(r, DefaultErrorHandler(fileFilter(field, file)))
             /\ UNCHANGED clock
        ELSE /\ file.size > FileSizeLimit
             /\ \E now \in 1..MaxClock :
                 /\ DateNow(now)
                 /\ uploads' = Drop(uploads, StoredPaths(r)
                                               \cup {filename(now, field, file)})
             /\ Reply(r, DefaultErrorHandler("File too large"))
    /\ UNCHANGED <<temp, remote, calls>>
    /\ UNCHANGED page

\* ------------------------------------------------------------ the handler
\* req.files[field] ? req.files[field][0] : null (lines 325-326): the test
\* `if (cvFile)` is HasFile, and cvFile.path is FileOf
HasFile(r, field) == field \in DOMAIN files[r]

FileOf(r, field) == files[r][field]

Call(op, repo, path) == [op |-> op, repo |-> repo, path |-> path]

\* process.env.GITHUB_USER
githubUser == "user"

\* `https://${githubUser}.github.io/${repoName}` (lines 424 and 482)
PagesUrl(name) == [user |-> githubUser, site |-> name]

\* createForAuthenticatedUser({ name, auto_init, homepage }) (lines 421-425)
CreateCall(name) ==
    [op |-> "create", repo |-> name, path |-> Null, homepage |-> PagesUrl(name)]

\* a catch block that rolls back: it deletes the repository it created
CatchWithRollback(r, msg) ==
    /\ Reply(r, ServerError(msg))
    /\ calls' = [calls EXCEPT ![r] = Append(@, Call("delete", repoName[r], Null))]
    /\ remote' = Drop(remote, {repoName[r]})
    /\ UNCHANGED <<uploads, temp>>

\* the catch block of the handler (lines 483-486): reply 500, nothing else
Catch(r, msg) ==
    /\ Reply(r, ServerError(msg))
    /\ UNCHANGED <<uploads, temp, remote, calls>>

\* lines 310-425: validation, rendering, and the repository-create call;
\* req.body is not read after line 420
Handler(r) ==
    /\ pc[r] = "handler"
    /\ LET out == HandlerPrefix(body[r]) IN
        IF out # NoResponse
        THEN /\ Reply(r, out)
             /\ UNCHANGED <<clock, calls>>
        ELSE \E now \in 1..MaxClock :
             LET name == RepoNameOf(body[r].name, now) IN
             /\ DateNow(now)
             /\ repoName' = [repoName EXCEPT ![r] = name]
             /\ calls' = [calls EXCEPT ![r] = Append(@, CreateCall(name))]
             /\ pc' = [pc EXCEPT ![r] = "create"]
             /\ body' = [body EXCEPT ![r] = Empty]
             /\ UNCHANGED <<files, filesToCommit, fileIdx, res, parts>>
    /\ UNCHANGED <<fsVars, remote>>
    /\ UNCHANGED page

\* createForAuthenticatedUser returns: the account has no repository of
\* that name yet; the handler goes on to createPagesSite (line 429)
CreateOk(r) ==
    /\ pc[r] = "create"
    /\ repoName[r] \notin DOMAIN remote
    /\ remote' = Put(remote, repoName[r], <<>>)
    /\ calls' = [calls EXCEPT ![r] = Append(@, Call("pages", repoName[r], Null))]
    /\ pc' = [pc EXCEPT ![r] = "pages"]
    /\ UNCHANGED <<clock, reqVars, res, fsVars>>
    /\ UNCHANGED page

\* a handler that calls createForAuthenticatedUser again when it fails
CreateFailRetry(r) ==
    /\ pc[r] = "create"
    /\ Len(calls[r]) < 3
    /\ calls' = [calls EXCEPT ![r] = Append(@, CreateCall(repoName[r]))]
    /\ UNCHANGED <<clock, pc, reqVars, res, fsVars, remote>>
    /\ UNCHANGED page

\* createForAuthenticatedUser fails (the name exists, the network, ...)
CreateFail(r) ==
    /\ pc[r] = "create"
    /\ Catch(r, "HttpError")
    /\ UNCHANGED clock
    /\ UNCHANGED page

\* createPagesSite returns; the handler goes on to fs.mkdir (line 441)
PagesOk(r) ==
    /\ pc[r] = "pages"
    /\ pc' = [pc EXCEPT ![r] = "mkdir"]
    /\ UNCHANGED <<clock, reqVars, res, fsVars, remote, calls>>
    /\ UNCHANGED page

\* lines 434-437
PagesFail(r) ==
    /\ pc[r] = "pages"
    /\ Catch(r, "Failed to enable GitHub Pages")
    /\ UNCHANGED clock
    /\ UNCHANGED page

\* path.join(__dirname, 'temp', repoName)
repoPath(r) == repoName[r]

\* fs.mkdir(repoPath, { recursive: true }) returns; on to fs.writeFile
MkdirOk(r) ==
    /\ pc[r] = "mkdir"
    /\ temp' = IF repoPath(r) \in DOMAIN temp THEN temp ELSE Put(temp, repoPath(r), Empty)
    /\ pc' = [pc EXCEPT ![r] = "write"]
    /\ UNCHANGED <<clock, reqVars, res, uploads, remote, calls>>
    /\ UNCHANGED page

\* what the handler does after index.html is written (lines 447-460) and
\* after each upload is staged: the next await it reaches
AfterWrite(r) ==
    IF HasFile(r, "cv") THEN "copy_cv"
    ELSE IF HasFile(r, "image") THEN "copy_image"
    ELSE "commit"

\* a handler that tests cvFile and imageFile with `else if`
AfterCvOnly(r) == "commit"

AfterCv(r) == IF HasFile(r, "image") THEN "copy_image" ELSE "commit"

\* the commit call of the loop's current file (line 462)
CommitCall(r, ftc, i) == Call("commit", repoName[r], ftc[i].path)

\* a commit phase that starts all its calls together (Promise.all)
GotoAllAtOnce(r, q, ftc) ==
    /\ pc' = [pc EXCEPT ![r] = q]
    /\ filesToCommit' = [filesToCommit EXCEPT ![r] = ftc]
    /\ calls' = IF q = "commit"
                THEN [calls EXCEPT ![r] =
                         @ \o [i \in 1..Len(ftc) |-> CommitCall(r, ftc, i)]]
                ELSE calls

\* entering pc q: when q is the commit loop, its first call is issued
Goto(r, q, ftc) ==
    /\ pc' = [pc EXCEPT ![r] = q]
    /\ filesToCommit' = [filesToCommit EXCEPT ![r] = ftc]
    /\ calls' = IF q = "commit"
                THEN [calls EXCEPT ![r] = Append(@, CommitCall(r, ftc, 1))]
                ELSE calls

\* fs.writeFile(index.html) returns (line 444): the directory must exist
WriteOk(r) ==
    /\ pc[r] = "write"
    /\ repoPath(r) \in DOMAIN temp
    /\ temp' = [temp EXCEPT ![repoPath(r)] = Put(@, "index.html", r)]
    /\ Goto(r, AfterWrite(r), <<[path |-> "index.html", content |-> r]>>)
    /\ UNCHANGED <<clock, body, files, repoName, fileIdx, res, uploads, remote, parts>>
    /\ UNCHANGED page

StagedName(field) == IF field = "cv" THEN "resume.pdf" ELSE "headshot.jpg"

\* fs.copyFile(upload, staged) returns (lines 451, 455): both must exist
CopyOk(r, field) ==
    /\ pc[r] = (IF field = "cv" THEN "copy_cv" ELSE "copy_image")
    /\ FileOf(r, field) \in DOMAIN uploads
    /\ repoPath(r) \in DOMAIN temp
    /\ temp' = [temp EXCEPT ![repoPath(r)] =
                   Put(@, StagedName(field), uploads[FileOf(r, field)])]
    /\ pc' = [pc EXCEPT ![r] = IF field = "cv" THEN "read_cv" ELSE "read_image"]
    /\ UNCHANGED <<clock, reqVars, res, uploads, remote, calls>>
    /\ UNCHANGED page

\* fs.readFile(upload, 'base64') returns (lines 452, 456)
ReadOk(r, field) ==
    /\ pc[r] = (IF field = "cv" THEN "read_cv" ELSE "read_image")
    /\ FileOf(r, field) \in DOMAIN uploads
    /\ Goto(r, IF field = "cv" THEN AfterCv(r) ELSE "commit",
            Append(filesToCommit[r],
                   [path |-> StagedName(field), content |-> uploads[FileOf(r, field)]]))
    /\ UNCHANGED <<clock, body, files, repoName, fileIdx, res, fsVars, remote, parts>>
    /\ UNCHANGED page

\* a filesystem call of the staging phase rejects: mkdir, writeFile,
\* copyFile or readFile (lines 441-456)
StagingPcs == {"mkdir", "write", "copy_cv", "read_cv", "copy_image", "read_image"}

StagingFail(r) ==
    /\ pc[r] \in StagingPcs
    /\ Catch(r, "fs error")
    /\ UNCHANGED clock
    /\ UNCHANGED page

\* ------------------------------------------------- commit loop and cleanup
\* `Failed to commit ${file.path}` (line 472)
CommitError(path) ==
    CASE path = "index.html" -> "Failed to commit index.html"
      [] path = "resume.pdf" -> "Failed to commit resume.pdf"
      [] path = "headshot.jpg" -> "Failed to commit headshot.jpg"

\* createOrUpdateFileContents returns: the file is in the repository; the
\* loop issues the next commit or, after the last one, fs.rm (line 477)
CommitOk(r) ==
    /\ pc[r] = "commit"
    /\ LET i == fileIdx[r] + 1 IN
        /\ remote' = [remote EXCEPT ![repoName[r]] = Append(@, filesToCommit[r][i].path)]
        /\ fileIdx' = [fileIdx EXCEPT ![r] = i]
        /\ IF i < Len(filesToCommit[r])
           THEN /\ calls' = [calls EXCEPT ![r] =
                                Append(@, CommitCall(r, filesToCommit[r], i + 1))]
                /\ UNCHANGED pc
           ELSE /\ pc' = [pc EXCEPT ![r] = "rm"]
                /\ UNCHANGED calls
    /\ UNCHANGED <<clock, body, files, repoName, filesToCommit, res, fsVars,
                   parts>>
    /\ UNCHANGED page

\* a commit loop that logs the failure and goes on with the next file
CommitFailContinue(r) ==
    /\ pc[r] = "commit"
    /\ LET i == fileIdx[r] + 1 IN
        /\ fileIdx' = [fileIdx EXCEPT ![r] = i]
        /\ IF i < Len(filesToCommit[r])
           THEN /\ calls' = [calls EXCEPT ![r] =
                                Append(@, CommitCall(r, filesToCommit[r], i + 1))]
                /\ UNCHANGED pc
           ELSE /\ pc' = [pc EXCEPT ![r] = "rm"]
                /\ UNCHANGED calls
    /\ UNCHANGED <<clock, body, files, repoName, filesToCommit, res, fsVars,
                   remote, parts>>
    /\ UNCHANGED page

\* lines 470-473
CommitFail(r) ==
    /\ pc[r] = "commit"
    /\ Catch(r, CommitError(filesToCommit[r][fileIdx[r] + 1].path))
    /\ UNCHANGED clock
    /\ UNCHANGED page

\* res.json({ url }) (line 482)
Respond200(r) == Reply(r, Success(PagesUrl(repoName[r])))

\* after fs.rm and after each unlink: the next await, or the reply
AfterRm(r) ==
    IF HasFile(r, "cv") THEN "unlink_cv"
    ELSE IF HasFile(r, "image") THEN "unlink_image"
    ELSE "done"

AfterUnlinkCv(r) == IF HasFile(r, "image") THEN "unlink_image" ELSE "done"

\* a handler that ends after the cleanup without res.json
ContinueSilent(r, q) ==
    /\ pc' = [pc EXCEPT ![r] = q]
    /\ UNCHANGED <<reqVars, res>>

Continue(r, q) ==
    IF q = "done" THEN Respond200(r)
    ELSE pc' = [pc EXCEPT ![r] = q] /\ UNCHANGED <<reqVars, res>>

\* fs.rm(repoPath, { recursive: true, force: true }) returns (line 477)
RmOk(r) ==
    /\ pc[r] = "rm"
    /\ temp' = Drop(temp, {repoPath(r)})
    /\ Continue(r, AfterRm(r))
    /\ UNCHANGED <<clock, uploads, remote, calls>>
    /\ UNCHANGED page

\* fs.rm rejects (EACCES, EBUSY, ...; force only covers a missing path):
\* the rejection is not caught at line 477 and reaches the catch block
RmFail(r) ==
    /\ pc[r] = "rm"
    /\ Catch(r, "fs error")
    /\ UNCHANGED clock
    /\ UNCHANGED page

UnlinkPc(field) == IF field = "cv" THEN "unlink_cv" ELSE "unlink_image"

AfterUnlink(r, field) == IF field = "cv" THEN AfterUnlinkCv(r) ELSE "done"

\* fs.unlink(path) returns (lines 478, 479)
UnlinkOk(r, field) ==
    /\ pc[r] = UnlinkPc(field)
    /\ FileOf(r, field) \in DOMAIN uploads
    /\ uploads' = Drop(uploads, {FileOf(r, field)})
    /\ Continue(r, AfterUnlink(r, field))
    /\ UNCHANGED <<clock, temp, remote, calls>>
    /\ UNCHANGED page

\* fs.unlink(path) rejects and .catch(() => {}) swallows the rejection
UnlinkFail(r, field) ==
    /\ pc[r] = UnlinkPc(field)
    /\ Continue(r, AfterUnlink(r, field))
    /\ UNCHANGED <<clock, fsVars, remote, calls>>
    /\ UNCHANGED page

Next ==
    \/ \E r \in Reqs : Arrive(r)
    \/ \E r \in Reqs, f \in UploadFields : MulterNoPart(r, f)
    \/ \E r \in Reqs, f \in UploadFields : MulterStore(r, f)
    \/ \E r \in Reqs, f \in UploadFields : MulterReject(r, f)
    \/ \E r \in Reqs : Handler(r)
    \/ \E r \in Reqs : CreateOk(r)
    \/ \E r \in Reqs : CreateFail(r)
    \/ \E r \in Reqs : PagesOk(r)
    \/ \E r \in Reqs : PagesFail(r)
    \/ \E r \in Reqs : MkdirOk(r)
    \/ \E r \in Reqs : WriteOk(r)
    \/ \E r \in Reqs, f \in UploadFields : CopyOk(r, f)
    \/ \E r \in Reqs, f \in UploadFields : ReadOk(r, f)
    \/ \E r \in Reqs : StagingFail(r)
    \/ \E r \in Reqs : CommitOk(r)
    \/ \E r \in Reqs : CommitFail(r)
    \/ \E r \in Reqs : RmOk(r)
    \/ \E r \in Reqs : RmFail(r)
    \/ \E r \in Reqs, f \in UploadFields : UnlinkOk(r, f)
    \/ \E r \in Reqs, f \in UploadFields : UnlinkFail(r, f)

Spec == Init /\ [][Next]_vars

\* the steps of the handler of r: the continuation that runs when the call
\* the handler awaits returns or fails
HandlerStep(r) ==
    \/ Handler(r)
    \/ CreateOk(r) \/ CreateFail(r)
    \/ PagesOk(r) \/ PagesFail(r)
    \/ MkdirOk(r) \/ WriteOk(r)
    \/ \E f \in UploadFields : CopyOk(r, f) \/ ReadOk(r, f)
    \/ StagingFail(r)
    \/ CommitOk(r) \/ CommitFail(r)
    \/ RmOk(r) \/ RmFail(r)
    \/ \E f \in UploadFields : UnlinkOk(r, f) \/ UnlinkFail(r, f)

\* the requests whose runs are followed to their end: a good body, one the
\* validation refuses and one whose parsing throws, with parts of the usual
\* extensions and types or a part that is too large
LiveBodies == {GoodBody, Without(GoodBody, "name"), [GoodBody EXCEPT !.skills = Malformed]}

LiveRequests(r) ==
    {req \in Requests(r) :
        /\ req.body \in LiveBodies
        /\ \A f \in DOMAIN req.parts :
               /\ req.parts[f].ext # ".doc"
               /\ req.parts[f].mimetype \in {"application/pdf", "image/jpeg"}}

\* Arrive, for a request of LiveRequests
ArriveLive(r) ==
    /\ pc[r] = "idle"
    /\ \E req \in LiveRequests(r) :
        /\ body' = [body EXCEPT ![r] = req.body]
        /\ parts' = [parts EXCEPT ![r] = req.parts]
    /\ pc' = [pc EXCEPT ![r] = "multer_cv"]
    /\ UNCHANGED <<clock, files, repoName, filesToCommit, fileIdx, res, fsVars,
                   remote, calls>>
    /\ UNCHANGED page

NextLive ==
    \/ \E r \in Reqs : ArriveLive(r)
    \/ \E r \in Reqs, f \in UploadFields : MulterNoPart(r, f)
    \/ \E r \in Reqs, f \in UploadFields : MulterStore(r, f)
    \/ \E r \in Reqs, f \in UploadFields : MulterReject(r, f)
    \/ \E r \in Reqs : HandlerStep(r)

\* every remote call and filesystem operation eventually returns or fails,
\* and the event loop then runs the handler's continuation
LiveSpec == Init /\ [][NextLive]_vars /\ \A r \in Reqs : WF_vars(HandlerStep(r))

\* ------------------------------------------- the rendering of one request
\* The handler's lines 329-414 for one request, one action per statement:
\* nothing of it awaits, and the pipeline above is idle meanwhile.
pipelineVars == <<clock, pc, body, files, repoName, filesToCommit, fileIdx, res,
                  uploads, temp, remote, calls, parts>>

InitRender ==
    /\ Idle
    /\ page \in {[stage |-> "received", body |-> b] : b \in RenderBodies}

\* lines 329-358 answer the request: no document is rendered
RenderRefused ==
    /\ page.stage = "received"
    /\ HandlerPrefix(page.body) # NoResponse
    /\ page' = [stage |-> "refused", body |-> page.body,
                response |-> HandlerPrefix(page.body)]
    /\ UNCHANGED pipelineVars

\* lines 345-358: the JSON fields are parsed and sanitized
ParseFields ==
    /\ page.stage = "received"
    /\ HandlerPrefix(page.body) = NoResponse
    /\ page' = [stage |-> "parsed", body |-> page.body,
                skills |-> parsedSkills(page.body),
                proficiencies |-> parsedProficiencies(page.body),
                projects |-> parsedProjects(page.body)]
    /\ UNCHANGED pipelineVars

\* lines 361-371
RenderSkills ==
    /\ page.stage = "parsed"
    /\ page' = [stage |-> "skills", body |-> page.body, skills |-> page.skills,
                proficiencies |-> page.proficiencies, projects |-> page.projects,
                skillBlocks |-> skillBlocks(page.skills, page.proficiencies)]
    /\ UNCHANGED pipelineVars

\* lines 374-387
RenderProjects ==
    /\ page.stage = "skills"
    /\ page' = [stage |-> "projects", body |-> page.body, skills |-> page.skills,
                proficiencies |-> page.proficiencies, projects |-> page.projects,
                skillBlocks |-> page.skillBlocks,
                projectBlocks |-> projectBlocks(page.projects)]
    /\ UNCHANGED pipelineVars

\* lines 390-414
Substitute ==
    /\ page.stage = "projects"
    /\ page' = [stage |-> "rendered", body |-> page.body, skills |-> page.skills,
                proficiencies |-> page.proficiencies, projects |-> page.projects,
                skillBlocks |-> page.skillBlocks,
                projectBlocks |-> page.projectBlocks,
                html |-> generatedHtml(page.body.template,
                                       sanitizedData(page.body, page.skills),
                                       skillsHtml(page.skillBlocks),
                                       projectsHtml(page.projectBlocks))]
    /\ UNCHANGED pipelineVars

NextRender ==
    \/ RenderRefused
    \/ ParseFields
    \/ RenderSkills
    \/ RenderProjects
    \/ Substitute

SpecRender == InitRender /\ [][NextRender]_vars

\* ------------------------------------------------------------ properties
InFlight(r) == pc[r] \notin {"idle", "done"}

\* this step sends the response of r
Replies(r) == res[r] = NoResponse /\ res'[r] # NoResponse

\* the step is one of r's
StepOf(r) == <<pc[r], fileIdx[r], calls[r], res[r]>>' # <<pc[r], fileIdx[r], calls[r], res[r]>>

Issued(cs, op) == \E i \in 1..Len(cs) : cs[i].op = op

NumIssued(cs, op) == Cardinality({i \in 1..Len(cs) : cs[i].op = op})

MissingRequired(b) == Falsy(b, "name") \/ Falsy(b, "profession") \/ Falsy(b, "email")

\* C1: a request in which name, profession or email is absent or empty is
\* answered with status 400, and never issues the repository-create call.
C1_MissingRequiredIs400 ==
    [][\A r \in Reqs :
        (InFlight(r) /\ MissingRequired(body[r]))
            => /\ ~Issued(calls'[r], "create")
               /\ Replies(r) => res'[r].code = 400]_vars

\* C2: when the response of a request has been sent, no upload file stored
\* for it is left in ./uploads.
C2_UploadsDeletedAtReply ==
    [][\A r \in Reqs :
        Replies(r) => \A p \in StoredPaths(r) : p \notin DOMAIN uploads']_vars

\* the staging directory of r has been created and r has not replied
Staged(r) == pc[r] \in {"write", "copy_cv", "read_cv", "copy_image", "read_image",
                        "commit", "rm", "unlink_cv", "unlink_image"}

\* fs.rm of the staging directory has been called
RmAttempted(r) == pc[r] \in {"rm", "unlink_cv", "unlink_image"}

\* C3: a request whose staging directory has been created replies (200 or
\* 500) only after the recursive removal of that directory was attempted.
C3_RemovalAttemptedBeforeReply ==
    [][\A r \in Reqs : (Staged(r) /\ Replies(r)) => RmAttempted(r)]_vars

\* C4: when the hosting-enable call fails, the response is 500, the
\* repository-create call was issued exactly once, no commit and no delete
\* call is issued, and the repository stays in the account.
C4_PagesFailureLeavesOrphan ==
    [][\A r \in Reqs :
        (pc[r] = "pages" /\ StepOf(r) /\ pc'[r] # "mkdir")
            => /\ res'[r].code = 500
               /\ pc'[r] = "done"
               /\ NumIssued(calls'[r], "create") = 1
               /\ ~Issued(calls'[r], "commit")
               /\ ~Issued(calls'[r], "delete")
               /\ repoName[r] \in DOMAIN remote']_vars

C4_Witness ==
    \E r \in Reqs :
        /\ res[r] = ServerError("Failed to enable GitHub Pages")
        /\ Len(calls[r]) = 2
        /\ calls[r][1].repo \in DOMAIN remote

\* this step leaves the repository of r as it is: a commit has not landed
NothingCommitted(r) == remote'[repoName[r]] = remote[repoName[r]]

\* C5: when the commit of the k-th artifact fails, the response is 500, no
\* further call (commit or delete) is issued, now or later, and the
\* artifacts committed before stay in the repository.
C5_CommitFailureStops ==
    [][\A r \in Reqs :
        /\ (pc[r] = "commit" /\ StepOf(r) /\ NothingCommitted(r))
            => /\ res'[r].code = 500
               /\ pc'[r] = "done"
               /\ calls'[r] = calls[r]
               /\ remote' = remote
               /\ NumIssued(calls[r], "commit") = fileIdx[r] + 1
               /\ ~Issued(calls[r], "delete")
        /\ pc[r] = "done" => calls'[r] = calls[r]]_vars

C5_Witness ==
    \E r \in Reqs :
        /\ res[r] = ServerError("Failed to commit resume.pdf")
        /\ remote[calls[r][1].repo] = <<"index.html">>
        /\ NumIssued(calls[r], "commit") = 2

\* C6: once repository creation, hosting enablement and all commits have
\* succeeded, the response is 200 whatever happens to the removal of the
\* staging directory and of the upload files.
C6_CleanupFailureKeeps200 ==
    [][\A r \in Reqs : (RmAttempted(r) /\ Replies(r)) => res'[r].code = 200]_vars

\* skills, skillProficiencies or projects is not parsable JSON
UnparsableJson(b) ==
    \E f \in {"skills", "skillProficiencies", "projects"} :
        ~JSONparse(OrEmptyArray(b, f)).ok

\* C7: the handler answers a request whose skills, skillProficiencies or
\* projects field is not parsable JSON with status 400, and issues no
\* remote call for it.
C7_UnparsableJsonIs400 ==
    [][\A r \in Reqs :
        (pc[r] = "handler" /\ UnparsableJson(body[r]) /\ Replies(r))
            => res'[r].code = 400 /\ calls'[r] = <<>>]_vars

\* C8: two requests in flight never hold the same upload path for the same
\* field.
C8_UploadPathsDistinct ==
    \A r1, r2 \in Reqs :
        r1 # r2 => \A f \in DOMAIN files[r1] \cap DOMAIN files[r2] :
                       files[r1][f] # files[r2][f]

\* the repository name a request has generated: that of its create call
Generated(r) == calls[r][1].repo

\* C9: two requests never generate the same repository name.
C9_RepoNamesDistinct ==
    \A r1, r2 \in Reqs :
        (r1 # r2 /\ calls[r1] # <<>> /\ calls[r2] # <<>>) => Generated(r1) # Generated(r2)

\* r has not yet unlinked its own upload of the field
HoldsUpload(r, f) ==
    /\ InFlight(r)
    /\ f \in DOMAIN files[r]
    /\ ~(f = "cv" /\ pc[r] = "unlink_image")

\* C10: while a request holds an upload, the file is in ./uploads with the
\* bytes of that request: no other request overwrites or removes it.
C10_UploadsIsolated ==
    \A r \in Reqs : \A f \in UploadFields :
        HoldsUpload(r, f) => /\ files[r][f] \in DOMAIN uploads
                             /\ uploads[files[r][f]] = r

\* the part breaks an upload constraint: a cv that is not a PDF, an image
\* that is neither JPEG nor PNG, a file larger than 5 MiB
Violates(field, file) ==
    \/ field = "cv" /\ file.mimetype # "application/pdf"
    \/ field = "image" /\ file.mimetype \notin {"image/jpeg", "image/png"}
    \/ file.size > 5 * 1024 * 1024

\* multer is reading the part of the field, and the part breaks a constraint
ReadsViolation(r, f) ==
    /\ f \in DOMAIN parts[r]
    /\ pc[r] = PcOfPart(f)
    /\ Violates(f, parts[r][f])

\* C11: a request that carries an upload breaking a constraint has issued no
\* remote call, never reaches the handler, and is rejected by the step that
\* reads the offending part, without a remote call.
C11_BadUploadRejectedBeforeRemote ==
    [][\A r \in Reqs :
        (\E f \in DOMAIN parts[r] : Violates(f, parts[r][f]))
            => /\ calls[r] = <<>> /\ calls'[r] = <<>>
               /\ pc'[r] \in {"multer_cv", "multer_image", "done"}
               /\ \A f \in UploadFields :
                      (ReadsViolation(r, f) /\ StepOf(r))
                          => Replies(r) /\ pc'[r] = "done" /\ res'[r].code >= 400]_vars

C11_Witness ==
    \E r \in Reqs :
        /\ res[r] = DefaultErrorHandler("Profile image must be a JPEG or PNG file")
        /\ calls[r] = <<>>
        /\ pc[r] = "done"

\* C12: a request rejected because an upload breaks a constraint is answered
\* with a client error (status 400 to 499).
C12_UploadRejectionIsClientError ==
    [][\A r \in Reqs : \A f \in UploadFields :
        (ReadsViolation(r, f) /\ Replies(r)) => res'[r].code \in 400..499]_vars

\* the paths of the commit calls in cs, in the order of the calls
RECURSIVE CommitPaths(_)
CommitPaths(cs) ==
    IF cs = <<>> THEN <<>>
    ELSE (IF Head(cs).op = "commit" THEN <<Head(cs).path>> ELSE <<>>)
             \o CommitPaths(Tail(cs))

\* the number of commit calls for the path
TimesCommitted(cs, path) ==
    Cardinality({i \in 1..Len(cs) : cs[i].op = "commit" /\ cs[i].path = path})

\* C13: when a request is answered 200, its commit calls are one for
\* index.html, one for resume.pdf iff it uploaded a cv, one for headshot.jpg
\* iff it uploaded an image, and no other; the url of the answer is the
\* Pages address of the repository, the homepage given to the create call.
C13_SuccessCommitsAndUrl ==
    [][\A r \in Reqs :
        (Replies(r) /\ res'[r].code = 200)
            => /\ TimesCommitted(calls[r], "index.html") = 1
               /\ TimesCommitted(calls[r], "resume.pdf") = (IF "cv" \in DOMAIN files[r] THEN 1 ELSE 0)
               /\ TimesCommitted(calls[r], "headshot.jpg") = (IF "image" \in DOMAIN files[r] THEN 1 ELSE 0)
               /\ NumIssued(calls[r], "commit") = 1 + Cardinality(DOMAIN files[r])
               /\ calls'[r] = calls[r]
               /\ res'[r].url = [user |-> githubUser, site |-> repoName[r]]
               /\ res'[r].url = calls[r][1].homepage
               /\ calls[r][1].op = "create" /\ calls[r][1].repo = repoName[r]]_vars

C13_Witness ==
    \E r \in Reqs :
        /\ res[r].code = 200
        /\ CommitPaths(calls[r]) = <<"index.html", "resume.pdf", "headshot.jpg">>
        /\ res[r].url = calls[r][1].homepage

\* the template field is absent or names none of the three templates
Unrecognized(b) == ~Has(b, "template") \/ b.template \notin {"default", "dark", "vibrant"}

\* C14: the handler answers a request whose template field is absent or not
\* one of default, dark, vibrant with status 400, and issues no remote call
\* for it.
C14_UnknownTemplateIs400 ==
    [][\A r \in Reqs :
        (pc[r] = "handler" /\ Unrecognized(body[r]) /\ StepOf(r))
            => Replies(r) /\ res'[r].code = 400 /\ calls'[r] = <<>>]_vars

\* the field is sent and its text is that of a JSON array
IsJsonArray(b, f) == Has(b, f) /\ JSONparse(b[f]).ok /\ JSONparse(b[f]).v.kind = "array"

\* skills and skillProficiencies are JSON arrays of different lengths
LengthsDiffer(b) ==
    /\ IsJsonArray(b, "skills")
    /\ IsJsonArray(b, "skillProficiencies")
    /\ Len(JSONparse(b.skills).v.items) # Len(JSONparse(b.skillProficiencies).v.items)

\* C15: the handler answers a request whose skills and skillProficiencies
\* are JSON arrays of different lengths with status 400, and issues no
\* remote call for it.
C15_LengthMismatchIs400 ==
    [][\A r \in Reqs :
        (pc[r] = "handler" /\ LengthsDiffer(body[r]) /\ StepOf(r))
            => Replies(r) /\ res'[r].code = 400 /\ calls'[r] = <<>>]_vars

\* local@domain.tld: one "@" with a non-empty local part before it, after it
\* a non-empty domain, a "." and a non-empty tld, and no whitespace
EmailForm(e) ==
    \E i \in 2..Len(e) :
        /\ e[i] = "@"
        /\ \A k \in (1..Len(e)) \ {i} : e[k] # "@" /\ e[k] # " "
        /\ \E j \in (i + 2)..(Len(e) - 1) : e[j] = "."

\* C16: a request whose email is not of the form local@domain.tld is
\* answered with status 400, and never issues a remote call.
C16_BadEmailIs400 ==
    [][\A r \in Reqs :
        (InFlight(r) /\ Has(body[r], "email") /\ ~EmailForm(body[r].email))
            => /\ calls'[r] = <<>>
               /\ Replies(r) => res'[r].code = 400]_vars

\* C17: the rendered document of an accepted request holds none of the
\* placeholder tokens, whatever the texts, skill names and project fields of
\* the request contain.
C17_NoPlaceholderLeft ==
    page.stage = "rendered"
        => \A i \in 1..Len(page.html) : page.html[i] \notin Placeholders

\* the projects of the request, as sent
SentProjects == ParsedItems(page.body, "projects")

\* the sanitized title and the sanitized description are both non-empty
Qualifies(o) ==
    /\ sanitizeHtml(Prop(o, "title")) # <<>>
    /\ sanitizeHtml(Prop(o, "description")) # <<>>

\* the projects that qualify, in the order of the request
Qualifying == SelectSeq(SentProjects, LAMBDA v : Qualifies(v.o))

\* the request gives the project a link
Supplied(o) == Prop(o, "link") # <<>>

\* the fragment has one block per qualifying project, in the order of the
\* request, each with the title and the description of its project
BlocksFollowRequest ==
    /\ Len(page.projectBlocks) = Len(Qualifying)
    /\ \A k \in 1..Len(Qualifying) :
           /\ page.projectBlocks[k].title = sanitizeHtml(Qualifying[k].o.title)
           /\ page.projectBlocks[k].description = sanitizeHtml(Qualifying[k].o.description)

\* C18, as stated: the projects fragment has a block for a project iff its
\* sanitized title and description are both non-empty, in request order,
\* and a block has a link element iff the project was given a link.
C18_LinkIffSupplied ==
    page.stage \in {"projects", "rendered"}
        => /\ BlocksFollowRequest
           /\ \A k \in 1..Len(Qualifying) :
                  page.projectBlocks[k].anchor # <<>> <=> Supplied(Qualifying[k].o)

\* C18, amended: the projects fragment has a block for a project iff its
\* sanitized title and description are both non-empty, in request order,
\* and a block has a link element iff the project was given a link that is
\* non-empty after sanitization; the element's href is the sanitized link.
C18_LinkIffSanitizedLink ==
    page.stage \in {"projects", "rendered"}
        => /\ BlocksFollowRequest
           /\ \A k \in 1..Len(Qualifying) :
                  LET link == sanitizeHtml(Prop(Qualifying[k].o, "link")) IN
                  /\ page.projectBlocks[k].anchor # <<>> <=> link # <<>>
                  /\ page.projectBlocks[k].anchor # <<>>
                         => page.projectBlocks[k].anchor[1] = link

C18_Witness ==
    /\ page.stage = "rendered"
    /\ Len(SentProjects) = 2
    /\ Len(page.projectBlocks) = 1
    /\ Supplied(Qualifying[1].o)
    /\ page.projectBlocks[1].anchor = <<>>

\* the proficiency of a block, as the claim has it: the number sent, and 0
\* for null and for a string (the strings sent hold no digit)
ShownProficiency(v) == IF v.kind = "number" THEN <<ToString(v.n)>> ELSE <<"0">>

\* C19: the skills fragment has one block per skill, in order, showing the
\* proficiency sent at the same position, and 0 when that value is null, an
\* empty string or a non-numeric string.
C19_ProficiencyOrZero ==
    page.stage \in {"skills", "projects", "rendered"}
        => /\ Len(page.skillBlocks) = Len(ParsedItems(page.body, "skills"))
           /\ \A i \in 1..Len(page.skillBlocks) :
                  page.skillBlocks[i].width
                      = ShownProficiency(ParsedItems(page.body, "skillProficiencies")[i])

\* the commits of r in the order the claim fixes, given its uploads
CommitOrder(r) ==
    <<"index.html">>
        \o (IF "cv" \in DOMAIN files[r] THEN <<"resume.pdf">> ELSE <<>>)
        \o (IF "image" \in DOMAIN files[r] THEN <<"headshot.jpg">> ELSE <<>>)

\* this step begins a commit call of r
BeginsCommit(r) == NumIssued(calls'[r], "commit") > NumIssued(calls[r], "commit")

\* C20: a step begins at most one commit call of a request; when it does,
\* every commit call the request began before has returned and its file is
\* in the repository, and the calls begun so far are index.html, resume.pdf
\* (if a cv was uploaded), headshot.jpg (if an image was), in that order.
\* While a request is in flight at most one of its commit calls is pending.
C20_CommitsOneAtATimeInOrder ==
    [][\A r \in Reqs :
        /\ BeginsCommit(r)
            => /\ NumIssued(calls'[r], "commit") = NumIssued(calls[r], "commit") + 1
               /\ remote'[repoName[r]] = CommitPaths(calls[r])
               /\ CommitPaths(calls'[r])
                      = SubSeq(CommitOrder(r), 1, NumIssued(calls'[r], "commit"))
        /\ InFlight(r)
            => NumIssued(calls[r], "commit")
                   = fileIdx[r] + (IF pc[r] = "commit" THEN 1 ELSE 0)]_vars

C20_Witness ==
    \E r \in Reqs :
        /\ pc[r] = "commit"
        /\ CommitPaths(calls[r]) = <<"index.html", "resume.pdf", "headshot.jpg">>
        /\ remote[repoName[r]] = <<"index.html", "resume.pdf">>

\* after this step the staging directory of r holds the artifact, with the
\* content that r commits under that path
StagedAfter(r, file) ==
    /\ repoPath(r) \in DOMAIN temp'
    /\ file.path \in DOMAIN temp'[repoPath(r)]
    /\ temp'[repoPath(r)][file.path] = file.content

\* C21: when a step begins a commit call of a request, every artifact the
\* request commits has been written or copied into its staging directory,
\* with the content that is committed; while the request is staging it has
\* begun no commit, and when a write or copy of the staging phase fails it
\* is answered 500 without any commit call, then or later.
C21_CommitOnlyAfterStaging ==
    [][\A r \in Reqs :
        /\ BeginsCommit(r)
            => \A i \in 1..Len(filesToCommit'[r]) : StagedAfter(r, filesToCommit'[r][i])
        /\ pc[r] \in StagingPcs => ~Issued(calls[r], "commit")
        /\ (pc[r] \in StagingPcs /\ Replies(r))
            => /\ res'[r].code = 500
               /\ ~Issued(calls'[r], "commit")
        /\ pc[r] = "done" => calls'[r] = calls[r]]_vars

\* the pipeline step a request is in: 1 validation and rendering, 2
\* repository creation, 3 hosting enablement, 4 local staging, 5 remote
\* commits, 6 cleanup, 7 answered
StepNumber(q) ==
    CASE q \in {"idle", "multer_cv", "multer_image"} -> 0
      [] q = "handler" -> 1
      [] q = "create" -> 2
      [] q = "pages" -> 3
      [] q \in StagingPcs -> 4
      [] q = "commit" -> 5
      [] q \in {"rm", "unlink_cv", "unlink_image"} -> 6
      [] q = "done" -> 7

\* one create call, then one hosting call, then commits, no two of them for
\* the same path
CallsInOrder(cs) ==
    /\ \A i \in 1..Len(cs) :
           cs[i].op = (IF i = 1 THEN "create" ELSE IF i = 2 THEN "pages" ELSE "commit")
    /\ \A i, j \in 1..Len(cs) : i < j => <<cs[i].op, cs[i].path>> # <<cs[j].op, cs[j].path>>

\* C22: a request never goes back to an earlier pipeline step; its remote
\* calls are one create, then one hosting enablement, then commits, each
\* path at most once; the hosting call is issued by the step in which the
\* repository creation succeeds, staging starts only when hosting
\* enablement has succeeded, and a failed repository creation is answered
\* 500 with no remote call then or later.
C22_PipelineOrderNoRetry ==
    [][\A r \in Reqs :
        /\ StepNumber(pc'[r]) >= StepNumber(pc[r])
        /\ CallsInOrder(calls'[r])
        /\ NumIssued(calls'[r], "pages") > NumIssued(calls[r], "pages")
            => /\ pc[r] = "create"
               /\ repoName[r] \notin DOMAIN remote
               /\ repoName[r] \in DOMAIN remote'
        /\ (pc'[r] \in StagingPcs /\ pc[r] \notin StagingPcs)
            => pc[r] = "pages" /\ Issued(calls[r], "pages")
        /\ pc[r] \in {"create", "pages"} \cup StagingPcs
            => NumIssued(calls[r], "commit") = 0
        /\ (pc[r] = "create" /\ StepOf(r) /\ pc'[r] # "pages")
            => /\ pc'[r] = "done"
               /\ res'[r].code = 500
               /\ calls'[r] = calls[r]
        /\ pc[r] = "done" => pc'[r] = "done" /\ calls'[r] = calls[r]]_vars

C22_Witness ==
    \E r1, r2 \in Reqs :
        /\ res[r1] = ServerError("HttpError")
        /\ Len(calls[r1]) = 1
        /\ res[r2].code = 200
        /\ Len(calls[r2]) = 4

\* the request's run in the handler has ended
Ended(r) == pc[r] = "done"

\* C23: a request that reaches the handler is answered: its run ends, with
\* a response sent by the step that ends it, and the response is never
\* replaced or sent again; a response of 200 is sent only when the
\* repository exists, hosting enablement has returned and every artifact
\* of the request is committed.
C23_ExactlyOneResponse ==
    /\ \A r \in Reqs : pc[r] = "handler" ~> (Ended(r) /\ res[r] # NoResponse)
    /\ [][\A r \in Reqs :
            /\ res[r] # NoResponse => res'[r] = res[r]
            /\ (pc[r] # "done" /\ pc'[r] = "done") => Replies(r)
            /\ pc[r] # "done" => res[r] = NoResponse
            /\ (Replies(r) /\ res'[r].code = 200)
                => /\ repoName[r] \in DOMAIN remote
                   /\ Issued(calls[r], "pages")
                   /\ StepNumber(pc[r]) = 6
                   /\ remote[repoName[r]] = CommitOrder(r)]_vars

C23_Witness ==
    \E r1, r2 \in Reqs :
        /\ r1 # r2
        /\ res[r1].code = 200
        /\ remote[calls[r1][1].repo] = <<"index.html", "resume.pdf", "headshot.jpg">>
        /\ res[r2] = ServerError("Failed to commit index.html")

====
